---- MODULE Spec2Model ----
(***************************************************************************)
(* Loan lifecycle (backend/app/api/routes/loans.py) and the assistant      *)
(* dialogue orchestrator (backend/app/services/ai_assistant.py,            *)
(* backend/app/api/routes/ai.py) of the loan backend, as a state machine   *)
(* over the hosted tables and the hosted assistant API.                    *)
(*                                                                         *)
(* Conventions.  A Python Optional value is a sequence of length <= 1:     *)
(* <<>> is None and <<v>> is the value v.  Amounts are whole KES as        *)
(* given in a request; values that the code rounds to two decimals are     *)
(* held in cents.  Table rows are kept in insertion order and a row's id   *)
(* is its position.  Every database or assistant-API call is one step.     *)
(***************************************************************************)
EXTENDS Integers, Sequences, FiniteSets, TLC

VARIABLES
    loans,          \* table "loans"
    transactions,   \* table "transactions"
    acc,            \* in-flight POST /loans/{id}/accept requests, per worker
    resp,           \* the last single-statement loan route answered, and its HTTP status
    threads,        \* table "conversation_threads"
    messages,       \* table "messages"
    profiles,       \* table "customer_profiles", by user_id
    ext_threads,    \* the hosted assistant API's threads and their messages
    runs,           \* the hosted assistant API's runs
    chat,           \* in-flight POST /ai/chat requests, per worker
    offer           \* a compute-offer request and what each implementation answered

chatVars == <<threads, messages, profiles, ext_threads, runs, chat>>

vars == <<loans, transactions, acc, resp,
          threads, messages, profiles, ext_threads, runs, chat, offer>>

----------------------------------------------------------------------------
(* Bounds of the model *)

MaxLoans == 1
MaxTx == 2
MaxTime == 2
MaxThreads == 1
MaxTurns == 2
MaxPauses == 1
MaxBatch == 2

\* server processes sharing the hosted database and the hosted assistant API
Workers == {"w1", "w2"}
LoanIds == 1..(MaxLoans + 1)
Times == 1..MaxTime

----------------------------------------------------------------------------
(* Optional values and Python truthiness *)

NoneVal == <<>>

Some(v) == <<v>>

Truthy(opt) == opt # NoneVal /\ opt[1] # 0

\* Python's `a or b` for an Optional number a
OrElse(opt, default) == IF Truthy(opt) THEN opt[1] ELSE default

----------------------------------------------------------------------------
(* users table: the rows the bearer token resolves to *)

Users == {"alice", "bob", "carol", "dave", "erin"}

UserRoleOf(u) ==
    CASE u = "carol" -> "agent"
      [] u = "dave" -> "agent"
      [] u = "erin" -> "admin"
      [] OTHER -> "customer"

UserStatusOf(u) == IF u = "dave" THEN "suspended" ELSE "active"

LoanStatus == {"pending", "approved", "rejected", "active", "completed", "defaulted"}

\* get_current_active_user: 403 unless the user row's status is active
get_current_active_user(u) == UserStatusOf(u) = "active"

\* require_agent_or_admin with the admin role alone let through
RequireAdminOnly(u) ==
    get_current_active_user(u) /\ UserRoleOf(u) \in {"admin"}

\* require_agent_or_admin: active, and role agent or admin
require_agent_or_admin(u) ==
    get_current_active_user(u) /\ UserRoleOf(u) \in {"agent", "admin"}

----------------------------------------------------------------------------
(* Settings *)

DEFAULT_INTEREST_RATE == 15
MIN_LOAN_AMOUNT == 1000
MAX_LOAN_AMOUNT == 50000
DEFAULT_LOAN_TENURE_DAYS == 30

----------------------------------------------------------------------------
(* calculate_loan *)

\* round(n/d) to the nearest integer, ties to even (Python's round), n >= 0, d > 0
RoundHalfEven(n, d) ==
    LET q == n \div d
        r == n % d
    IN  IF 2 * r < d THEN q
        ELSE IF 2 * r > d THEN q + 1
        ELSE IF q % 2 = 0 THEN q ELSE q + 1

\* Field(..., gt=0) on amount, Field(default=30, gt=0) on tenure_days
LoanCalculateRequest(amount, tenure) ==
    amount > 0 /\ (tenure # NoneVal => tenure[1] > 0)

\* calculate_loan with both limits of the range refused
CalculateLoanExclusive(amount, rate, tenure) ==
    LET interest_rate == OrElse(rate, DEFAULT_INTEREST_RATE)
        tenure_days == OrElse(tenure, DEFAULT_LOAN_TENURE_DAYS)
    IN  IF amount <= MIN_LOAN_AMOUNT \/ amount >= MAX_LOAN_AMOUNT
        THEN [ok |-> FALSE]
        ELSE [ok |-> TRUE,
              amount |-> amount,
              interest_rate |-> interest_rate,
              tenure_days |-> tenure_days,
              interest_amount |->
                  RoundHalfEven(amount * interest_rate * tenure_days, 30),
              total_repayment |->
                  amount * 100
                  + RoundHalfEven(amount * interest_rate * tenure_days, 30),
              daily_interest |-> RoundHalfEven(amount * interest_rate, 30)]

\* POST /loans/calculate: ok = FALSE is the 400 response.  interest_amount,
\* total_repayment and daily_interest are in cents.
calculate_loan(amount, rate, tenure) ==
    LET interest_rate == OrElse(rate, DEFAULT_INTEREST_RATE)
        tenure_days == OrElse(tenure, DEFAULT_LOAN_TENURE_DAYS)
    IN  IF amount < MIN_LOAN_AMOUNT \/ amount > MAX_LOAN_AMOUNT
        THEN [ok |-> FALSE]
        ELSE [ok |-> TRUE,
              amount |-> amount,
              interest_rate |-> interest_rate,
              tenure_days |-> tenure_days,
              interest_amount |->
                  RoundHalfEven(amount * interest_rate * tenure_days, 30),
              total_repayment |->
                  amount * 100
                  + RoundHalfEven(amount * interest_rate * tenure_days, 30),
              daily_interest |-> RoundHalfEven(amount * interest_rate, 30)]

\* the LoanCalculateResponse of a calculate_loan that returned
LoanCalculateResponse(calc) ==
    [amount |-> calc.amount,
     interest_rate |-> calc.interest_rate,
     tenure_days |-> calc.tenure_days,
     interest_amount |-> calc.interest_amount,
     total_repayment |-> calc.total_repayment,
     daily_interest |-> calc.daily_interest]

\* POST /loans/calculate as the client sees it: 422 from the request model,
\* 400 from the range check, else 200 and the response body
PostCalculate(amount, rate, tenure) ==
    IF ~LoanCalculateRequest(amount, tenure)
    THEN [code |-> 422, body |-> NoneVal]
    ELSE LET calc == calculate_loan(amount, rate, tenure)
         IN  IF ~calc.ok
             THEN [code |-> 400, body |-> NoneVal]
             ELSE [code |-> 200, body |-> Some(LoanCalculateResponse(calc))]

\* no compute-offer request
NoOffer ==
    [amount |-> 0, rate |-> NoneVal, tenure |-> NoneVal,
     route |-> NoneVal, tool |-> NoneVal]

----------------------------------------------------------------------------
(* Request inputs *)

ReqAmounts == {0, 500, 1000, 2000}
ReqRates == {NoneVal}
ReqTenures == {NoneVal}

\* callers of POST /loans and POST /loans/{id}/accept
Applicants == {"alice", "bob", "dave"}

\* callers of PUT /loans/{id}/status
StatusCallers == {"alice", "carol", "dave", "erin"}

\* users in a chat turn
ChatUsers == {"alice", "bob"}

----------------------------------------------------------------------------
(* Loan routes *)

\* the route answered with this HTTP status
Answered(route, code) == [route |-> route, code |-> code]

\* loan_data of create_loan
NewLoan(u, amount, calc) ==
    [user_id |-> u,
     amount |-> amount,
     interest_rate |-> calc.interest_rate,
     tenure_days |-> calc.tenure_days,
     total_repayment |-> calc.total_repayment,
     status |-> "pending",
     approved_by |-> NoneVal,
     approved_at |-> NoneVal]

\* POST /loans.  calculate_loan, called directly, returns a dict, and
\* calc_result.interest_rate is an attribute access on it: building loan_data
\* raises AttributeError before the insert, the framework answers 500
create_loan(u, amount, rate, tenure) ==
    /\ UNCHANGED <<loans, transactions, acc>>
    /\ IF ~get_current_active_user(u)
       THEN resp' = Answered("create_loan", 403)
       ELSE IF ~LoanCalculateRequest(amount, tenure)
       THEN resp' = Answered("create_loan", 422)
       ELSE LET calc_result == calculate_loan(amount, rate, tenure)
            IN  IF ~calc_result.ok
                THEN resp' = Answered("create_loan", 400)
                ELSE resp' = Answered("create_loan", 500)

\* rows of the hosted loans table that the routes act on: create_loan
\* inserts none, so they are rows stored by another client of the hosted
\* database, as loan_data shapes an application
StoredLoans ==
    {NewLoan(u, MIN_LOAN_AMOUNT,
             calculate_loan(MIN_LOAN_AMOUNT, NoneVal, NoneVal)) : u \in ChatUsers}

StoredLoanTables ==
    UNION {[1..n -> StoredLoans] : n \in 0..MaxLoans}

\* update_data of update_loan_status, applied to the row it matches
StatusUpdate(row, u, status, now) ==
    IF status = "approved"
    THEN [row EXCEPT !.status = status,
                     !.approved_by = Some(u),
                     !.approved_at = Some(now)]
    ELSE [row EXCEPT !.status = status]

\* PUT /loans/{loan_id}/status
update_loan_status(u, loan_id, status, now) ==
    /\ UNCHANGED <<transactions, acc>>
    /\ IF ~require_agent_or_admin(u)
       THEN resp' = Answered("update_loan_status", 403) /\ UNCHANGED loans
       ELSE IF loan_id \notin DOMAIN loans
       THEN resp' = Answered("update_loan_status", 404) /\ UNCHANGED loans
       ELSE /\ loans' = [loans EXCEPT ![loan_id] = StatusUpdate(@, u, status, now)]
            /\ resp' = Answered("update_loan_status", 200)

\* the update of _store_acceptance, applied to the row it matches
AcceptanceUpdate(row, accepted, now) ==
    [row EXCEPT !.status = IF accepted THEN "approved" ELSE "rejected",
                !.approved_at = IF accepted THEN Some(now) ELSE NoneVal]

\* _store_acceptance: the loans table after the tool call (.eq("id", loan_id) only)
_store_acceptance(table, loan_id, accepted, now) ==
    IF loan_id \in DOMAIN table
    THEN [table EXCEPT ![loan_id] = AcceptanceUpdate(@, accepted, now)]
    ELSE table

\* a store_customer_acceptance tool call dispatched in a chat turn of user u
StoreAcceptanceCall(u, loan_id, accepted, now) ==
    /\ get_current_active_user(u)
    /\ loans' = _store_acceptance(loans, loan_id, accepted, now)
    /\ UNCHANGED <<transactions, acc, resp>>

----------------------------------------------------------------------------
(* POST /loans/{loan_id}/accept, one step per database call.  A request    *)
(* runs on a worker; workers are server processes sharing the hosted       *)
(* database.  `updated` and `inserted` record which of its two writes the  *)
(* request has executed.                                                   *)

IdleRequest ==
    [pc |-> "idle", caller |-> NoneVal, loan_id |-> NoneVal, loan |-> NoneVal,
     updated |-> FALSE, inserted |-> FALSE, code |-> 0]

\* the request ends with this HTTP status; its locals are gone
Finish(r, code) ==
    [IdleRequest EXCEPT !.pc = "done", !.code = code,
                        !.updated = r.updated, !.inserted = r.inserted]

\* the request arrives; Depends(get_current_active_user)
AcceptStart(w, u, loan_id) ==
    /\ acc[w].pc \in {"idle", "done"}
    /\ LET r == [IdleRequest EXCEPT !.caller = Some(u), !.loan_id = Some(loan_id)]
       IN  acc' = [acc EXCEPT ![w] =
                      IF get_current_active_user(u)
                      THEN [r EXCEPT !.pc = "select"]
                      ELSE Finish(r, 403)]
    /\ UNCHANGED <<loans, transactions, resp>>

\* select * from loans where id = loan_id and user_id = caller; of the row,
\* the fields accept_loan goes on to read
SelectOwnLoan(table, loan_id, u) ==
    IF loan_id \in DOMAIN table /\ table[loan_id].user_id = u
    THEN Some([status |-> table[loan_id].status,
               amount |-> table[loan_id].amount,
               total_repayment |-> table[loan_id].total_repayment])
    ELSE NoneVal

AcceptSelect(w) ==
    /\ acc[w].pc = "select"
    /\ LET found == SelectOwnLoan(loans, acc[w].loan_id[1], acc[w].caller[1])
       IN  acc' = [acc EXCEPT ![w] =
                      IF found = NoneVal
                      THEN Finish(@, 404)
                      ELSE [@ EXCEPT !.pc = "check", !.loan = found]]
    /\ UNCHANGED <<loans, transactions, resp>>

\* AcceptCheckResult without the status check
AcceptCheckSkipped(r) == [r EXCEPT !.pc = "update"]

\* if loan["status"] != "pending": 400
AcceptCheckResult(r) ==
    IF r.loan[1].status # "pending"
    THEN Finish(r, 400)
    ELSE [r EXCEPT !.pc = "update"]

AcceptCheck(w) ==
    /\ acc[w].pc = "check"
    /\ acc' = [acc EXCEPT ![w] = AcceptCheckResult(@)]
    /\ UNCHANGED <<loans, transactions, resp>>

\* update loans set status = approved, approved_at = now where id = loan_id
AcceptUpdateRow(row, now) ==
    [row EXCEPT !.status = "approved", !.approved_at = Some(now)]

AcceptUpdate(w, now) ==
    /\ acc[w].pc = "update"
    /\ loans' = [loans EXCEPT ![acc[w].loan_id[1]] = AcceptUpdateRow(@, now)]
    /\ acc' = [acc EXCEPT ![w] = [@ EXCEPT !.pc = "insert", !.updated = TRUE]]
    /\ UNCHANGED <<transactions, resp>>

\* DisbursementRow with the principal written as the running balance
DisbursementRowPrincipalBalance(loan_id, u, loan) ==
    [loan_id |-> loan_id,
     user_id |-> u,
     type |-> "disbursement",
     amount |-> loan.amount,
     balance_after |-> loan.amount * 100]

\* the row accept_loan inserts into transactions, from the loan it read
DisbursementRow(loan_id, u, loan) ==
    [loan_id |-> loan_id,
     user_id |-> u,
     type |-> "disbursement",
     amount |-> loan.amount,
     balance_after |-> loan.total_repayment]

AcceptInsert(w) ==
    /\ acc[w].pc = "insert"
    /\ Len(transactions) < MaxTx
    /\ transactions' = Append(transactions,
           DisbursementRow(acc[w].loan_id[1], acc[w].caller[1], acc[w].loan[1]))
    /\ acc' = [acc EXCEPT ![w] = Finish([@ EXCEPT !.inserted = TRUE], 200)]
    /\ UNCHANGED <<loans, resp>>

\* .execute() raises (the hosted database refuses or cannot be reached):
\* the exception leaves accept_loan, the framework answers 500
AcceptExecuteRaises(w) ==
    /\ acc[w].pc \in {"update", "insert"}
    /\ acc' = [acc EXCEPT ![w] = Finish(@, 500)]
    /\ UNCHANGED <<loans, transactions, resp>>

AcceptStep(w) ==
    \/ \E u \in Applicants, l \in LoanIds : AcceptStart(w, u, l)
    \/ AcceptSelect(w)
    \/ AcceptCheck(w)
    \/ \E now \in Times : AcceptUpdate(w, now)
    \/ AcceptInsert(w)
    \/ AcceptExecuteRaises(w)

----------------------------------------------------------------------------
(* Assistant tools *)

Reverse(seq) == [i \in 1..Len(seq) |-> seq[Len(seq) + 1 - i]]

\* .eq("user_id", u).order("created_at", desc=True)
NewestOf(table, u) ==
    LET OfUser(row) == row.user_id = u
    IN  Reverse(SelectSeq(table, OfUser))

\* .limit(n)
Limit(seq, n) == IF Len(seq) <= n THEN seq ELSE SubSeq(seq, 1, n)

\* tool arguments as the assistant sends them; a key it leaves out is NoneVal
NoArgs ==
    [amount |-> NoneVal, interest_rate |-> NoneVal, tenure_days |-> NoneVal,
     loan_id |-> NoneVal, accepted |-> NoneVal,
     user_id |-> NoneVal, profile_data |-> NoneVal]

\* what one handler call does: it raises, or returns `output` and leaves the
\* tables as given
Returned(output, loanTable, profileTable) ==
    [raised |-> FALSE, output |-> output,
     loans |-> loanTable, profiles |-> profileTable]

Raised(loanTable, profileTable) ==
    [raised |-> TRUE, output |-> NoneVal,
     loans |-> loanTable, profiles |-> profileTable]

\* _calculate_loan: args["amount"], args.get(..., default); no range check;
\* dividing by tenure_days = 0 raises
_calculate_loan(args, db) ==
    IF args.amount = NoneVal THEN Raised(db.loans, db.profiles)
    ELSE LET amount == args.amount[1]
             interest_rate == IF args.interest_rate = NoneVal
                              THEN DEFAULT_INTEREST_RATE
                              ELSE args.interest_rate[1]
             tenure_days == IF args.tenure_days = NoneVal
                            THEN DEFAULT_LOAN_TENURE_DAYS
                            ELSE args.tenure_days[1]
         IN  IF tenure_days = 0 THEN Raised(db.loans, db.profiles)
             ELSE Returned(
                    [amount |-> amount,
                     interest_rate |-> interest_rate,
                     tenure_days |-> tenure_days,
                     interest_amount |->
                         RoundHalfEven(amount * interest_rate * tenure_days, 30),
                     total_repayment |->
                         amount * 100
                         + RoundHalfEven(amount * interest_rate * tenure_days, 30),
                     daily_interest |->
                         RoundHalfEven(amount * interest_rate, 30)],
                    db.loans, db.profiles)

\* _store_acceptance as a tool handler
StoreAcceptanceTool(args, user_id, db, now) ==
    IF args.loan_id = NoneVal \/ args.accepted = NoneVal
    THEN Raised(db.loans, db.profiles)
    ELSE Returned(
           [success |-> TRUE,
            status |-> IF args.accepted[1] THEN "approved" ELSE "rejected"],
           _store_acceptance(db.loans, args.loan_id[1], args.accepted[1], now),
           db.profiles)

\* _get_loan_info: the user's loans, newest first, and last 10 transactions
_get_loan_info(user_id, db) ==
    Returned(
      [loans |-> NewestOf(db.loans, user_id),
       transactions |-> Limit(NewestOf(db.transactions, user_id), 10)],
      db.loans, db.profiles)

\* _complete_onboarding: upsert of the profile of args["user_id"]
_complete_onboarding(args, db) ==
    IF args.user_id = NoneVal \/ args.profile_data = NoneVal
    THEN Raised(db.loans, db.profiles)
    ELSE Returned(
           [success |-> TRUE, onboarding_completed |-> TRUE],
           db.loans,
           [db.profiles EXCEPT ![args.user_id[1]] =
               Some([data |-> args.profile_data[1],
                     onboarding_completed |-> TRUE])])

UnknownFunction == [error |-> "Unknown function"]

\* _execute_function with the last elif written as else
ExecuteFunctionElse(function_name, arguments, user_id, db, now) ==
    IF function_name = "calculate_loan_offer"
    THEN _calculate_loan(arguments, db)
    ELSE IF function_name = "store_customer_acceptance"
    THEN StoreAcceptanceTool(arguments, user_id, db, now)
    ELSE IF function_name = "get_loan_info"
    THEN _get_loan_info(user_id, db)
    ELSE _complete_onboarding(arguments, db)

\* _execute_function: dispatch by name
_execute_function(function_name, arguments, user_id, db, now) ==
    IF function_name = "calculate_loan_offer"
    THEN _calculate_loan(arguments, db)
    ELSE IF function_name = "store_customer_acceptance"
    THEN StoreAcceptanceTool(arguments, user_id, db, now)
    ELSE IF function_name = "get_loan_info"
    THEN _get_loan_info(user_id, db)
    ELSE IF function_name = "complete_onboarding"
    THEN _complete_onboarding(arguments, db)
    ELSE Returned(UnknownFunction, db.loans, db.profiles)

\* the names of TOOLS
ToolNames ==
    {"calculate_loan_offer", "store_customer_acceptance",
     "get_loan_info", "complete_onboarding"}

\* function calls the assistant may request (name and arguments)
ToolRequests ==
    {[name |-> "calculate_loan_offer",
      args |-> [NoArgs EXCEPT !.amount = Some(2000)]],
     [name |-> "store_customer_acceptance",
      args |-> [NoArgs EXCEPT !.loan_id = Some(1), !.accepted = Some(TRUE)]],
     [name |-> "store_customer_acceptance",
      args |-> [NoArgs EXCEPT !.accepted = Some(FALSE)]],
     [name |-> "get_loan_info", args |-> NoArgs],
     [name |-> "complete_onboarding",
      args |-> [NoArgs EXCEPT !.user_id = Some("bob"),
                              !.profile_data = Some("kiosk")]],
     [name |-> "transfer_funds",
      args |-> [NoArgs EXCEPT !.amount = Some(2000)]]}

\* a requires_action batch: tool calls with ids unique in the batch
ToolBatches ==
    UNION {[1..n -> ToolRequests] : n \in 1..MaxBatch}

ToolCallId(pause, i) == 10 * pause + i

----------------------------------------------------------------------------
(* The hosted assistant API *)

ActiveRunStatus == {"queued", "in_progress", "requires_action", "cancelling"}

FailedRunStatus == {"failed", "cancelled", "expired"}

NewRun(thread_id) ==
    [thread |-> thread_id, status |-> "queued", calls |-> <<>>,
     pauses |-> 0, submitted |-> <<>>]

\* the thread has a run that is not terminal
HasActiveRun(thread_id) ==
    \E r \in DOMAIN runs :
        runs[r].thread = thread_id /\ runs[r].status \in ActiveRunStatus

UserMessageCount ==
    LET Count[t \in 0..Len(ext_threads)] ==
            IF t = 0 THEN 0
            ELSE Count[t - 1]
                 + Cardinality({i \in DOMAIN ext_threads[t] :
                                   ext_threads[t][i].role = "user"})
    IN  Count[Len(ext_threads)]

\* the assistant takes the run up
RunStarts(r) ==
    /\ runs[r].status = "queued"
    /\ runs' = [runs EXCEPT ![r].status = "in_progress"]
    /\ UNCHANGED <<threads, messages, profiles, ext_threads, chat>>

\* a run that has ended: required_action is gone, only the status is left
Ended(run, status) ==
    [run EXCEPT !.status = status, !.calls = <<>>, !.submitted = <<>>]

\* the assistant answers: its message joins the thread, the run completes
RunCompletes(r) ==
    /\ runs[r].status = "in_progress"
    /\ runs' = [runs EXCEPT ![r] = Ended(@, "completed")]
    /\ ext_threads' = [ext_threads EXCEPT ![runs[r].thread] =
           Append(@, [role |-> "assistant", content |-> "answer"])]
    /\ UNCHANGED <<threads, messages, profiles, chat>>

\* the assistant asks for tool calls
RunRequiresAction(r, batch) ==
    /\ runs[r].status = "in_progress"
    /\ runs[r].pauses < MaxPauses
    /\ runs' = [runs EXCEPT ![r] =
           [@ EXCEPT !.status = "requires_action",
                     !.pauses = @ + 1,
                     !.calls = [i \in DOMAIN batch |->
                                   [id |-> ToolCallId(runs[r].pauses + 1, i),
                                    name |-> batch[i].name,
                                    args |-> batch[i].args]]]]
    /\ UNCHANGED <<threads, messages, profiles, ext_threads, chat>>

\* a cancellation of the run is under way: a status the poll loop does not list
RunCancelling(r) ==
    /\ runs[r].status = "in_progress"
    /\ runs' = [runs EXCEPT ![r].status = "cancelling"]
    /\ UNCHANGED <<threads, messages, profiles, ext_threads, chat>>

\* the run ends without an answer
RunFails(r, status) ==
    /\ runs[r].status \in ActiveRunStatus
    /\ \/ status = "expired" /\ runs[r].status # "cancelling"
       \/ status = "failed" /\ runs[r].status = "in_progress"
       \/ status = "cancelled" /\ runs[r].status = "cancelling"
    /\ runs' = [runs EXCEPT ![r] = Ended(@, status)]
    /\ UNCHANGED <<threads, messages, profiles, ext_threads, chat>>

\* the assistant, without tool calls
AssistantRuns ==
    \E r \in DOMAIN runs :
        \/ RunStarts(r)
        \/ RunCompletes(r)
        \/ RunCancelling(r)
        \/ \E status \in FailedRunStatus : RunFails(r, status)

AssistantTools ==
    \E r \in DOMAIN runs, batch \in ToolBatches : RunRequiresAction(r, batch)

Assistant == AssistantRuns \/ AssistantTools

----------------------------------------------------------------------------
(* POST /ai/chat: chat, get_or_create_thread, send_message, one step per   *)
(* call to the database or to the assistant API.                           *)

IdleChat ==
    [pc |-> "idle", caller |-> NoneVal, thread_id |-> NoneVal,
     message |-> NoneVal, run |-> NoneVal,
     calls |-> <<>>, outputs |-> <<>>,
     fetched |-> NoneVal, polled |-> NoneVal, stored |-> <<>>,
     code |-> 0, detail |-> NoneVal, reply |-> NoneVal]

\* the request ends with this HTTP status and body; of its locals the model
\* keeps what it last polled, what it fetched and which rows it stored
ChatFinish(c, code, detail, reply) ==
    [IdleChat EXCEPT !.pc = "done", !.code = code, !.detail = detail,
                     !.reply = reply, !.polled = c.polled,
                     !.fetched = c.fetched, !.stored = c.stored]

\* except Exception as e: 500, "Chat error: {e}"
ChatError(c, e) == ChatFinish(c, 500, Some(e), NoneVal)

\* Exception(f"Run failed with status: {run_status.status}")
RunFailedError(status) == <<"Run failed with status", status>>

\* the latest active thread of the user (order created_at desc, limit 1)
ActiveThreadOf(u) ==
    LET ids == {i \in DOMAIN threads :
                   threads[i].user_id = u /\ threads[i].status = "active"}
    IN  IF ids = {} THEN NoneVal
        ELSE Some(threads[CHOOSE i \in ids : \A j \in ids : j <= i])

\* _store_message: the messages table after the call
_store_message(thread_id, role, content) ==
    LET ids == {i \in DOMAIN threads : threads[i].openai_thread_id = thread_id}
    IN  IF ids = {} THEN messages
        ELSE Append(messages,
                    [thread_id |-> CHOOSE i \in ids : \A j \in ids : i <= j,
                     role |-> role,
                     content |-> content])

\* the request arrives: Depends(get_current_active_user), request.thread_id
ChatStart(w, u, thread_id, text) ==
    /\ chat[w].pc \in {"idle", "done"}
    /\ LET c == [IdleChat EXCEPT !.caller = Some(u), !.message = Some(text)]
       IN  chat' = [chat EXCEPT ![w] =
               IF ~get_current_active_user(u)
               THEN ChatFinish(c, 403, Some("Inactive user"), NoneVal)
               ELSE IF thread_id # NoneVal
               THEN [c EXCEPT !.pc = "append", !.thread_id = thread_id]
               ELSE [c EXCEPT !.pc = "thread_select"]]
    /\ UNCHANGED <<threads, messages, profiles, ext_threads, runs>>

\* ChatThreadSelect with the result of the select ignored
ChatThreadSelectIgnored(w) ==
    /\ chat[w].pc = "thread_select"
    /\ chat' = [chat EXCEPT ![w] = [@ EXCEPT !.pc = "thread_create"]]
    /\ UNCHANGED <<threads, messages, profiles, ext_threads, runs>>

\* get_or_create_thread: the select
ChatThreadSelect(w) ==
    /\ chat[w].pc = "thread_select"
    /\ LET found == ActiveThreadOf(chat[w].caller[1])
       IN  chat' = [chat EXCEPT ![w] =
               IF found # NoneVal
               THEN [@ EXCEPT !.pc = "append",
                              !.thread_id = Some(found[1].openai_thread_id)]
               ELSE [@ EXCEPT !.pc = "thread_create"]]
    /\ UNCHANGED <<threads, messages, profiles, ext_threads, runs>>

\* create_thread: threads.create() and the insert of the mapping
create_thread(w) ==
    /\ chat[w].pc = "thread_create"
    /\ ext_threads' = Append(ext_threads, <<>>)
    /\ threads' = Append(threads,
           [user_id |-> chat[w].caller[1],
            openai_thread_id |-> Len(ext_threads) + 1,
            status |-> "active"])
    /\ chat' = [chat EXCEPT ![w] =
           [@ EXCEPT !.pc = "append", !.thread_id = Some(Len(ext_threads) + 1)]]
    /\ UNCHANGED <<messages, profiles, runs>>

\* create_thread when the insert's .execute() raises: threads.create() has
\* made the hosted thread, no conversation_threads row maps it
CreateThreadInsertRaises(w) ==
    /\ chat[w].pc = "thread_create"
    /\ ext_threads' = Append(ext_threads, <<>>)
    /\ chat' = [chat EXCEPT ![w] = ChatError(@, "insert raised")]
    /\ UNCHANGED <<threads, messages, profiles, runs>>

\* threads.messages.create: refused for an unknown thread and while a run
\* of the thread is active
ChatAppend(w) ==
    /\ chat[w].pc = "append"
    /\ LET t == chat[w].thread_id[1]
       IN  IF t \notin DOMAIN ext_threads \/ HasActiveRun(t)
           THEN /\ chat' = [chat EXCEPT ![w] = ChatError(@, "messages.create refused")]
                /\ UNCHANGED ext_threads
           ELSE /\ UserMessageCount < MaxTurns
                /\ ext_threads' = [ext_threads EXCEPT ![t] =
                       Append(@, [role |-> "user", content |-> chat[w].message[1]])]
                /\ chat' = [chat EXCEPT ![w] = [@ EXCEPT !.pc = "store_user"]]
    /\ UNCHANGED <<threads, messages, profiles, runs>>

\* self._store_message(thread_id, "user", message)
ChatStoreUser(w) ==
    /\ chat[w].pc = "store_user"
    /\ messages' = _store_message(chat[w].thread_id[1], "user", chat[w].message[1])
    /\ chat' = [chat EXCEPT ![w] =
           [@ EXCEPT !.pc = "run_create",
                     !.stored = IF messages' # messages
                                THEN Append(@, "user") ELSE @]]
    /\ UNCHANGED <<threads, profiles, ext_threads, runs>>

\* threads.runs.create: refused while another run of the thread is active
ChatRunCreate(w) ==
    /\ chat[w].pc = "run_create"
    /\ LET t == chat[w].thread_id[1]
       IN  IF HasActiveRun(t)
           THEN /\ chat' = [chat EXCEPT ![w] = ChatError(@, "runs.create refused")]
                /\ UNCHANGED runs
           ELSE /\ runs' = Append(runs, NewRun(t))
                /\ chat' = [chat EXCEPT ![w] =
                       [@ EXCEPT !.pc = "poll", !.run = Some(Len(runs) + 1)]]
    /\ UNCHANGED <<threads, messages, profiles, ext_threads>>

\* Poll with "failed" left out of the failure list
PollFailedUnlisted(c, run) ==
    LET seen == [c EXCEPT !.polled = Some(run.status)]
    IN  IF run.status = "completed"
        THEN [seen EXCEPT !.pc = "list"]
        ELSE IF run.status = "requires_action"
        THEN [seen EXCEPT !.pc = "dispatch", !.calls = run.calls, !.outputs = <<>>]
        ELSE IF run.status \in {"cancelled", "expired"}
        THEN ChatError(seen, RunFailedError(run.status))
        ELSE seen

\* Poll with "expired" left out of the failure list
PollExpiredUnlisted(c, run) ==
    LET seen == [c EXCEPT !.polled = Some(run.status)]
    IN  IF run.status \in {"completed", "expired"}
        THEN [seen EXCEPT !.pc = "list"]
        ELSE IF run.status = "requires_action"
        THEN [seen EXCEPT !.pc = "dispatch", !.calls = run.calls, !.outputs = <<>>]
        ELSE IF run.status \in {"failed", "cancelled"}
        THEN ChatError(seen, <<"Run failed with status", run.status>>)
        ELSE seen

\* one pass of the while True loop up to its branch: runs.retrieve
Poll(c, run) ==
    LET seen == [c EXCEPT !.polled = Some(run.status)]
    IN  IF run.status = "completed"
        THEN [seen EXCEPT !.pc = "list"]
        ELSE IF run.status = "requires_action"
        THEN [seen EXCEPT !.pc = "dispatch", !.calls = run.calls, !.outputs = <<>>]
        ELSE IF run.status \in {"failed", "cancelled", "expired"}
        THEN ChatError(seen, RunFailedError(run.status))
        ELSE seen

ChatPoll(w) ==
    /\ chat[w].pc = "poll"
    /\ chat' = [chat EXCEPT ![w] = Poll(@, runs[chat[w].run[1]])]
    /\ UNCHANGED <<threads, messages, profiles, ext_threads, runs>>

\* HandleToolCall with a raising tool call answered by an error output
HandleToolCallSwallowed(c, done) ==
    LET tool_call == c.calls[Len(c.outputs) + 1]
        tool_outputs == Append(c.outputs,
                               [tool_call_id |-> tool_call.id,
                                output |-> IF done.raised
                                           THEN [error |-> "raised"]
                                           ELSE done.output])
    IN  [c EXCEPT !.outputs = tool_outputs,
                  !.pc = IF Len(tool_outputs) = Len(c.calls)
                         THEN "submit" ELSE "dispatch"]

\* HandleToolCall with the output put in front of the list
HandleToolCallPrepend(c, done) ==
    IF done.raised
    THEN ChatError(c, "tool call raised")
    ELSE LET tool_call == c.calls[Len(c.outputs) + 1]
             tool_outputs == <<[tool_call_id |-> tool_call.id,
                                output |-> done.output]>> \o c.outputs
         IN  [c EXCEPT !.outputs = tool_outputs,
                       !.pc = IF Len(tool_outputs) = Len(c.calls)
                              THEN "submit" ELSE "dispatch"]

\* _handle_tool_calls: one pass of its loop, on the next tool call
HandleToolCall(c, done) ==
    IF done.raised
    THEN ChatError(c, "tool call raised")
    ELSE LET tool_call == c.calls[Len(c.outputs) + 1]
             tool_outputs == Append(c.outputs,
                                    [tool_call_id |-> tool_call.id,
                                     output |-> done.output])
         IN  [c EXCEPT !.outputs = tool_outputs,
                       !.pc = IF Len(tool_outputs) = Len(c.calls)
                              THEN "submit" ELSE "dispatch"]

ChatDispatch(w, now) ==
    /\ chat[w].pc = "dispatch"
    /\ LET tool_call == chat[w].calls[Len(chat[w].outputs) + 1]
           done == _execute_function(tool_call.name, tool_call.args,
                       chat[w].caller[1],
                       [loans |-> loans, transactions |-> transactions,
                        profiles |-> profiles],
                       now)
       IN  /\ loans' = done.loans
           /\ profiles' = done.profiles
           /\ chat' = [chat EXCEPT ![w] = HandleToolCall(@, done)]
    /\ UNCHANGED <<threads, messages, ext_threads, runs>>

\* runs.submit_tool_outputs: refused unless the run awaits them
ChatSubmit(w) ==
    /\ chat[w].pc = "submit"
    /\ LET r == chat[w].run[1]
       IN  IF runs[r].status # "requires_action"
           THEN /\ chat' = [chat EXCEPT ![w] =
                       ChatError(@, "submit_tool_outputs refused")]
                /\ UNCHANGED runs
           ELSE /\ runs' = [runs EXCEPT ![r] =
                       [@ EXCEPT !.status = "queued",
                                 !.submitted = Append(@, chat[w].outputs)]]
                /\ chat' = [chat EXCEPT ![w] = [@ EXCEPT !.pc = "poll"]]
    /\ UNCHANGED <<threads, messages, profiles, ext_threads>>

\* threads.messages.list(order="desc", limit=1): the thread's last message
LatestMessage(thread_id) ==
    IF ext_threads[thread_id] = <<>> THEN NoneVal
    ELSE Some(ext_threads[thread_id][Len(ext_threads[thread_id])])

ChatList(w) ==
    /\ chat[w].pc = "list"
    /\ LET latest == LatestMessage(chat[w].thread_id[1])
       IN  chat' = [chat EXCEPT ![w] =
               IF latest = NoneVal
               THEN ChatError(@, "Failed to get response from AI")
               ELSE [@ EXCEPT !.pc = "store_assistant", !.fetched = latest]]
    /\ UNCHANGED <<threads, messages, profiles, ext_threads, runs>>

\* self._store_message(thread_id, "assistant", assistant_message); return
ChatStoreAssistant(w) ==
    /\ chat[w].pc = "store_assistant"
    /\ LET assistant_message == chat[w].fetched[1].content
       IN  /\ messages' = _store_message(chat[w].thread_id[1], "assistant",
                                         assistant_message)
           /\ chat' = [chat EXCEPT ![w] =
                  ChatFinish([@ EXCEPT !.stored =
                                 IF messages' # messages
                                 THEN Append(@, "assistant") ELSE @],
                             200, NoneVal,
                             Some([message |-> assistant_message,
                                   thread_id |-> chat[w].thread_id[1],
                                   role |-> "assistant"]))]
    /\ UNCHANGED <<threads, profiles, ext_threads, runs>>

UserTexts == {"hello"}

ThreadIds == 1..(MaxThreads + 1)

ChatStep(w) ==
    \/ \E u \in ChatUsers, text \in UserTexts :
           \/ ChatStart(w, u, NoneVal, text)
           \/ \E t \in ThreadIds : ChatStart(w, u, Some(t), text)
    \/ ChatThreadSelect(w)
    \/ create_thread(w)
    \/ CreateThreadInsertRaises(w)
    \/ ChatAppend(w)
    \/ ChatStoreUser(w)
    \/ ChatRunCreate(w)
    \/ ChatPoll(w)
    \/ ChatSubmit(w)
    \/ ChatList(w)
    \/ ChatStoreAssistant(w)

ChatToolStep(w) == \E now \in Times : ChatDispatch(w, now)

----------------------------------------------------------------------------
(* GET /ai/thread, one step per database call; a worker serves one request *)
(* at a time, a chat or a thread lookup.                                   *)

\* the request arrives: Depends(get_current_active_user)
GetThreadStart(w, u) ==
    /\ chat[w].pc \in {"idle", "done"}
    /\ LET c == [IdleChat EXCEPT !.caller = Some(u)]
       IN  chat' = [chat EXCEPT ![w] =
               IF ~get_current_active_user(u)
               THEN ChatFinish(c, 403, Some("Inactive user"), NoneVal)
               ELSE [c EXCEPT !.pc = "get_select"]]
    /\ UNCHANGED <<threads, messages, profiles, ext_threads, runs>>

\* the select; if result.data: return result.data[0]
GetThreadSelect(w) ==
    /\ chat[w].pc = "get_select"
    /\ LET found == ActiveThreadOf(chat[w].caller[1])
       IN  chat' = [chat EXCEPT ![w] =
               IF found # NoneVal
               THEN ChatFinish(@, 200, NoneVal, found)
               ELSE [@ EXCEPT !.pc = "get_create"]]
    /\ UNCHANGED <<threads, messages, profiles, ext_threads, runs>>

\* thread_data = await ai_assistant.create_thread(...); return thread_data
GetThreadCreate(w) ==
    /\ chat[w].pc = "get_create"
    /\ LET thread_data == [user_id |-> chat[w].caller[1],
                           openai_thread_id |-> Len(ext_threads) + 1,
                           status |-> "active"]
       IN  /\ ext_threads' = Append(ext_threads, <<>>)
           /\ threads' = Append(threads, thread_data)
           /\ chat' = [chat EXCEPT ![w] =
                  ChatFinish(@, 200, NoneVal, Some(thread_data))]
    /\ UNCHANGED <<messages, profiles, runs>>

GetThreadStep(w) ==
    \/ \E u \in ChatUsers : GetThreadStart(w, u)
    \/ GetThreadSelect(w)
    \/ GetThreadCreate(w)

\* a chat request that leaves request.thread_id out, the assistant asking
\* for no tool call
ThreadChatStep(w) ==
    \/ \E u \in ChatUsers, text \in UserTexts : ChatStart(w, u, NoneVal, text)
    \/ ChatThreadSelect(w)
    \/ create_thread(w)
    \/ ChatAppend(w)
    \/ ChatStoreUser(w)
    \/ ChatRunCreate(w)
    \/ ChatPoll(w)
    \/ ChatList(w)
    \/ ChatStoreAssistant(w)

----------------------------------------------------------------------------
(* Specifications *)

Init ==
    /\ loans \in StoredLoanTables
    /\ transactions = <<>>
    /\ acc = [w \in Workers |-> IdleRequest]
    /\ resp = Answered("", 0)
    /\ threads = <<>>
    /\ messages = <<>>
    /\ profiles = [u \in Users |-> NoneVal]
    /\ ext_threads = <<>>
    /\ runs = <<>>
    /\ chat = [w \in Workers |-> IdleChat]
    /\ offer = NoOffer

CreateLoan ==
    /\ \E u \in Applicants, a \in ReqAmounts, r \in ReqRates, t \in ReqTenures :
           create_loan(u, a, r, t)
    /\ UNCHANGED <<chatVars, offer>>

UpdateLoanStatus ==
    /\ \E u \in StatusCallers, l \in LoanIds, s \in LoanStatus, now \in Times :
           update_loan_status(u, l, s, now)
    /\ UNCHANGED <<chatVars, offer>>

StoreAcceptance ==
    /\ \E u \in ChatUsers, l \in LoanIds, a \in BOOLEAN, now \in Times :
           StoreAcceptanceCall(u, l, a, now)
    /\ UNCHANGED <<chatVars, offer>>

Accept(w) == AcceptStep(w) /\ UNCHANGED <<chatVars, offer>>

Next == CreateLoan \/ UpdateLoanStatus \/ StoreAcceptance \/ Accept("w1")

\* every loan operation, interleaved with one accept request at a time
Spec == Init /\ [][Next]_vars

StatusNext == UpdateLoanStatus \/ StoreAcceptance

\* the two operations that set a loan's status in one statement
StatusSpec == Init /\ [][StatusNext]_vars

AcceptNext == \E w \in Workers : Accept(w)

\* concurrent accept requests
AcceptSpec == Init /\ [][AcceptNext]_vars

\* at most MaxThreads hosted threads are made
Chat(w) ==
    /\ ChatStep(w)
    /\ Len(ext_threads') <= MaxThreads
    /\ UNCHANGED <<loans, transactions, acc, resp, offer>>

ChatTool(w) == ChatToolStep(w) /\ UNCHANGED <<transactions, acc, resp, offer>>

AssistantStep == Assistant /\ UNCHANGED <<loans, transactions, acc, resp, offer>>

ChatNext == Chat("w1") \/ ChatTool("w1") \/ AssistantStep

\* one chat request at a time and the assistant
ChatSpec == Init /\ [][ChatNext]_vars

AssistantRunsStep == AssistantRuns /\ UNCHANGED <<loans, transactions, acc, resp, offer>>

\* two chat requests at a time and the assistant, without tool calls
ChatRaceNext == Chat("w1") \/ Chat("w2") \/ AssistantRunsStep

ChatRaceSpec == Init /\ [][ChatRaceNext]_vars

\* arguments of compute offer: amounts around both limits, the rate and the
\* tenure left out, zero, and given
CalcAmounts == {0, 500, 999, 1000, 1001, 2000, 50000, 50001}

CalcRates == {NoneVal, Some(0), Some(10), Some(15)}

CalcTenures == {NoneVal, Some(0), Some(15), Some(30)}

CalcInit ==
    /\ loans = <<>>
    /\ transactions = <<>>
    /\ acc = [w \in Workers |-> IdleRequest]
    /\ resp = Answered("", 0)
    /\ threads = <<>>
    /\ messages = <<>>
    /\ profiles = [u \in Users |-> NoneVal]
    /\ ext_threads = <<>>
    /\ runs = <<>>
    /\ chat = [w \in Workers |-> IdleChat]
    /\ offer \in [amount : CalcAmounts, rate : CalcRates, tenure : CalcTenures,
                  route : {NoneVal}, tool : {NoneVal}]

\* POST /loans/calculate with the request's arguments
CalculateRoute ==
    /\ offer.route = NoneVal
    /\ offer' = [offer EXCEPT !.route =
           Some(PostCalculate(offer.amount, offer.rate, offer.tenure))]
    /\ UNCHANGED <<loans, transactions, acc, resp, chatVars>>

\* the calculate_loan_offer tool dispatched with the same arguments
CalculateTool ==
    /\ offer.tool = NoneVal
    /\ \E u \in ChatUsers, now \in Times :
          LET done == _execute_function("calculate_loan_offer",
                          [NoArgs EXCEPT !.amount = Some(offer.amount),
                                         !.interest_rate = offer.rate,
                                         !.tenure_days = offer.tenure],
                          u,
                          [loans |-> loans, transactions |-> transactions,
                           profiles |-> profiles],
                          now)
          IN  /\ offer' = [offer EXCEPT !.tool =
                     Some([raised |-> done.raised,
                           output |-> IF done.raised THEN NoneVal
                                      ELSE Some(done.output)])]
              /\ loans' = done.loans
              /\ profiles' = done.profiles
    /\ UNCHANGED <<transactions, acc, resp,
                   threads, messages, ext_threads, runs, chat>>

\* POST /loans with the same arguments
CalcCreateLoan ==
    /\ \E u \in Applicants :
          create_loan(u, offer.amount, offer.rate, offer.tenure)
    /\ UNCHANGED <<chatVars, offer>>

CalcNext == CalculateRoute \/ CalculateTool \/ CalcCreateLoan

\* compute offer by the route and by the tool, and a loan application, on
\* one argument set
CalcSpec == CalcInit /\ [][CalcNext]_vars

\* a chat request with this message that leaves request.thread_id out, the
\* assistant asking for no tool call
TextChatStep(w, text) ==
    \/ \E u \in ChatUsers : ChatStart(w, u, NoneVal, text)
    \/ ChatThreadSelect(w)
    \/ create_thread(w)
    \/ ChatAppend(w)
    \/ ChatStoreUser(w)
    \/ ChatRunCreate(w)
    \/ ChatPoll(w)
    \/ ChatList(w)
    \/ ChatStoreAssistant(w)

TextChat(w, text) ==
    /\ TextChatStep(w, text)
    /\ Len(ext_threads') <= MaxThreads
    /\ UNCHANGED <<loans, transactions, acc, resp, offer>>

OrderNext == TextChat("w1", "hello") \/ TextChat("w2", "again") \/ AssistantRunsStep

\* two chat requests at a time, each with a message of its own
OrderSpec == Init /\ [][OrderNext]_vars

\* at most MaxThreads + 1 hosted threads are made
ThreadChat(w) ==
    /\ ThreadChatStep(w)
    /\ Len(ext_threads') <= MaxThreads + 1
    /\ UNCHANGED <<loans, transactions, acc, resp, offer>>

GetThread(w) ==
    /\ GetThreadStep(w)
    /\ Len(ext_threads') <= MaxThreads + 1
    /\ UNCHANGED <<loans, transactions, acc, resp, offer>>

ThreadSeqNext == ThreadChat("w1") \/ GetThread("w1") \/ AssistantRunsStep

\* chat requests and thread lookups, one request at a time
ThreadSeqSpec == Init /\ [][ThreadSeqNext]_vars

ThreadNext == ThreadChat("w1") \/ GetThread("w2") \/ AssistantRunsStep

\* a chat request and a thread lookup at a time
ThreadSpec == Init /\ [][ThreadNext]_vars

\* the request handler keeps running: every call it is blocked in returns
ChatLiveSpec ==
    ChatSpec /\ WF_vars(Chat("w1")) /\ WF_vars(ChatTool("w1"))

----------------------------------------------------------------------------
(* Claims *)

Range(seq) == {seq[i] : i \in DOMAIN seq}

\* the transitions the loan lifecycle allows
LegalTransitions ==
    {<<"pending", "approved">>, <<"pending", "rejected">>,
     <<"approved", "active">>,
     <<"active", "completed">>, <<"active", "defaulted">>}

Disbursements(l) ==
    {i \in DOMAIN transactions :
        transactions[i].loan_id = l /\ transactions[i].type = "disbursement"}

\* C1: every change of a stored loan's status is one of the legal
\* transitions pending->approved, pending->rejected, approved->active,
\* active->completed, active->defaulted.
C1_OnlyLegalTransitions ==
    [][\A l \in DOMAIN loans :
          loans'[l].status # loans[l].status
          => <<loans[l].status, loans'[l].status>> \in LegalTransitions]_vars

\* C2: a status-transition request by an agent or admin for a pair outside
\* the legal-transition set is answered 400 and leaves the loans unchanged.
C2_IllegalTransitionRejected ==
    [][\A u \in StatusCallers, l \in DOMAIN loans, s \in LoanStatus, now \in Times :
          ( /\ require_agent_or_admin(u)
            /\ <<loans[l].status, s>> \notin LegalTransitions
            /\ update_loan_status(u, l, s, now) )
          => (resp'.code = 400 /\ loans' = loans)]_vars

\* the step worker w takes is the insert of a request that then returns 200
AcceptReturns(w) ==
    acc[w].pc = "insert" /\ acc'[w].pc = "done" /\ acc'[w].code = 200

\* C3: accept_loan on a pending loan owned by the caller sets that loan (and
\* no other) to approved with an approval time, and inserts exactly one
\* transaction: a disbursement for that loan and its owner, with the loan's
\* amount and the loan's total_repayment as balance_after.
C3_AcceptApprovesAndDisburses ==
    [][\A w \in Workers :
          /\ (acc[w].pc = "update" /\ acc'[w].pc = "insert")
             => LET l == acc[w].loan_id[1]
                IN  /\ loans'[l].status = "approved"
                    /\ loans'[l].approved_at # NoneVal
                    /\ loans'[l].user_id = acc[w].caller[1]
                    /\ \A k \in DOMAIN loans \ {l} : loans'[k] = loans[k]
          /\ AcceptReturns(w)
             => LET l == acc[w].loan_id[1]
                IN  /\ acc'[w].updated
                    /\ transactions' = Append(transactions,
                          [loan_id |-> l,
                           user_id |-> loans[l].user_id,
                           type |-> "disbursement",
                           amount |-> loans[l].amount,
                           balance_after |-> loans[l].total_repayment])
          /\ (acc'[w] # acc[w] /\ ~AcceptReturns(w))
             => transactions' = transactions]_vars

C3_Witness ==
    \E w \in Workers :
        /\ acc[w].pc = "done" /\ acc[w].code = 200
        /\ Len(transactions) = 1
        /\ loans[1].status = "approved"

\* C4: once accept_loan has returned or failed, it has approved the loan if
\* and only if it has inserted the disbursement transaction.
C4_AcceptAtomic ==
    \A w \in Workers :
        acc[w].pc = "done" => (acc[w].updated <=> acc[w].inserted)

\* the loan the request of worker w names is missing or is not the caller's
NotOwnLoan(w) ==
    \/ acc[w].loan_id[1] \notin DOMAIN loans
    \/ loans[acc[w].loan_id[1]].user_id # acc[w].caller[1]

Failed(r, code) == r.pc = "done" /\ r.code = code

\* C5: accept_loan answers 404 exactly when the loan is missing or not the
\* caller's and 400 exactly when the loan it read is not pending; a request
\* answered 400 or 404 has executed neither write, and the step that fails
\* leaves loans and transactions as they were.
C5_RejectedAcceptWritesNothing ==
    /\ [](\A w \in Workers :
            (Failed(acc[w], 400) \/ Failed(acc[w], 404))
            => (~acc[w].updated /\ ~acc[w].inserted))
    /\ [][\A w \in Workers :
            /\ (acc[w].pc = "select" /\ acc'[w] # acc[w])
               => /\ NotOwnLoan(w) <=> Failed(acc'[w], 404)
                  /\ ~NotOwnLoan(w)
                     => acc'[w].loan[1].status = loans[acc[w].loan_id[1]].status
            /\ (acc[w].pc = "check" /\ acc'[w] # acc[w])
               => (acc[w].loan[1].status # "pending" <=> Failed(acc'[w], 400))
            /\ (acc[w].pc # "done"
                /\ (Failed(acc'[w], 400) \/ Failed(acc'[w], 404)))
               => (loans' = loans /\ transactions' = transactions)]_vars

C5_Witness ==
    \E a, b \in Workers :
        /\ Failed(acc[a], 400)
        /\ Failed(acc[b], 404)
        /\ Len(transactions) = 1

\* C6: under any interleaving of concurrent accept_loan requests, a loan has
\* at most one disbursement transaction.
C6_OneDisbursementPerLoan ==
    \A l \in LoanIds : Cardinality(Disbursements(l)) <= 1

\* C7: a chat request whose poll saw the run failed, cancelled or expired is
\* answered with a server error whose detail is the run-failed error carrying
\* that status; it returns no reply and has stored no assistant Message row.
C7_FailedRunSurfaces ==
    \A w \in Workers :
        ( /\ chat[w].pc = "done"
          /\ chat[w].polled # NoneVal
          /\ chat[w].polled[1] \in FailedRunStatus )
        => /\ chat[w].code \in 500..599
           /\ chat[w].detail = Some(<<"Run failed with status", chat[w].polled[1]>>)
           /\ chat[w].reply = NoneVal
           /\ "assistant" \notin Range(chat[w].stored)

C7_Witness ==
    \E w \in Workers :
        /\ chat[w].pc = "done"
        /\ chat[w].polled = Some("expired")
        /\ chat[w].stored = <<"user">>

\* the tool call the request of worker w dispatches next
NextToolCall(w) == chat[w].calls[Len(chat[w].outputs) + 1]

\* C8: on a requires_action pause every requested tool call is dispatched to
\* one handler and yields one output carrying its tool_call_id, in the order
\* requested; polling resumes only after the whole batch has been submitted
\* to the run in a single submission, one submission per pause.
C8_ToolBatchSubmittedOnce ==
    /\ [](\A w \in Workers :
            chat[w].pc \in {"dispatch", "submit"}
            => /\ Len(chat[w].outputs) <= Len(chat[w].calls)
               /\ chat[w].pc = "submit"
                  <=> Len(chat[w].outputs) = Len(chat[w].calls)
               /\ \A i \in DOMAIN chat[w].outputs :
                     chat[w].outputs[i].tool_call_id = chat[w].calls[i].id)
    /\ [][\A w \in Workers :
            /\ ( /\ chat[w].pc = "dispatch"
                 /\ chat'[w] # chat[w]
                 /\ chat'[w].pc # "done" )
               => /\ Len(chat'[w].outputs) = Len(chat[w].outputs) + 1
                  /\ SubSeq(chat'[w].outputs, 1, Len(chat[w].outputs))
                     = chat[w].outputs
                  /\ loans' # loans
                     => NextToolCall(w).name = "store_customer_acceptance"
                  /\ profiles' # profiles
                     => NextToolCall(w).name = "complete_onboarding"
            /\ (chat[w].pc # "poll" /\ chat'[w].pc = "poll")
               => \/ chat[w].pc = "run_create"
                  \/ LET r == chat[w].run[1]
                     IN  /\ chat[w].pc = "submit"
                         /\ chat[w].calls = runs[r].calls
                         /\ runs'[r].submitted
                            = Append(runs[r].submitted, chat[w].outputs)
                         /\ Len(runs'[r].submitted) = runs'[r].pauses
            /\ \A r \in DOMAIN runs :
                  Len(runs'[r].submitted) > Len(runs[r].submitted)
                  => \E v \in Workers :
                        chat[v].pc = "submit" /\ chat[v].run = Some(r)]_vars

C8_Witness ==
    \E w \in Workers :
        /\ chat[w].pc = "poll"
        /\ LET sub == runs[chat[w].run[1]].submitted
           IN  /\ Len(sub) = 1
               /\ Len(sub[1]) = 2
               /\ sub[1][1].tool_call_id = ToolCallId(1, 1)
               /\ sub[1][2].tool_call_id = ToolCallId(1, 2)

\* C9: dispatching a tool call whose name is none of the four tools adds the
\* output {"error": "Unknown function"} for that call, does not end the
\* request, and writes to no table.
C9_UnknownToolAnswered ==
    [][\A w \in Workers :
          ( /\ chat[w].pc = "dispatch"
            /\ chat'[w] # chat[w]
            /\ NextToolCall(w).name \notin ToolNames )
          => /\ chat'[w].pc \in {"dispatch", "submit"}
             /\ chat'[w].outputs
                = Append(chat[w].outputs,
                         [tool_call_id |-> NextToolCall(w).id,
                          output |-> [error |-> "Unknown function"]])
             /\ UNCHANGED <<loans, transactions, profiles, threads, messages>>]_vars

C9_Witness ==
    \E w \in Workers :
        /\ chat[w].pc = "poll"
        /\ LET sub == runs[chat[w].run[1]].submitted
           IN  /\ Len(sub) = 1
               /\ \E i \in DOMAIN sub[1] :
                     sub[1][i].output = [error |-> "Unknown function"]

\* C10: a chat request answered 200 fetched an assistant-role message,
\* stored exactly one assistant Message row, and returns that message's
\* content with the thread handle; the reply is never a user-role message.
C10_ReplyIsAssistantMessage ==
    \A w \in Workers :
        (chat[w].pc = "done" /\ chat[w].code = 200)
        => /\ chat[w].fetched[1].role = "assistant"
           /\ chat[w].reply[1].message = chat[w].fetched[1].content
           /\ Cardinality({i \in DOMAIN chat[w].stored :
                              chat[w].stored[i] = "assistant"}) = 1

\* the conversation_threads rows that map the hosted thread t
MappingsOf(t) == {i \in DOMAIN threads : threads[i].openai_thread_id = t}

\* C11: send_message appends the text as a user-role message to the hosted
\* thread, then persists exactly one local Message row with role user and
\* that text, then starts the run, for a thread handle found by
\* get_or_create_thread and for one supplied in the request alike.
C11_UserMessagePersisted ==
    [][\A w \in Workers :
          /\ (chat[w].pc = "append" /\ chat'[w].pc = "store_user")
             => LET t == chat[w].thread_id[1]
                IN  /\ ext_threads'[t]
                       = Append(ext_threads[t],
                                [role |-> "user", content |-> chat[w].message[1]])
                    /\ messages' = messages
                    /\ runs' = runs
          /\ (chat[w].pc = "store_user" /\ chat'[w] # chat[w])
             => /\ chat'[w].pc = "run_create"
                /\ Len(messages') = Len(messages) + 1
                /\ messages'[Len(messages')].role = "user"
                /\ messages'[Len(messages')].content = chat[w].message[1]
                /\ messages'[Len(messages')].thread_id
                   \in MappingsOf(chat[w].thread_id[1])
                /\ runs' = runs
          /\ (chat[w].pc = "run_create" /\ chat'[w].pc = "poll")
             => chat[w].stored = <<"user">>]_vars

\* C12: for one argument set, the calculate_loan_offer tool call and POST
\* /loans/calculate end alike: both fail, or both return the same offer.
C12_ToolEqualsRoute ==
    (offer.route # NoneVal /\ offer.tool # NoneVal)
    => LET route == offer.route[1]
           tool == offer.tool[1]
       IN  /\ route.code = 200 <=> ~tool.raised
           /\ route.code = 200 => tool.output = route.body

InRange(amount) == MIN_LOAN_AMOUNT <= amount /\ amount <= MAX_LOAN_AMOUNT

ClientError == 400..499

\* C13: compute offer answers a client error whenever the amount is not
\* positive, below MIN_LOAN_AMOUNT or above MAX_LOAN_AMOUNT, and succeeds for
\* every amount from MIN_LOAN_AMOUNT to MAX_LOAN_AMOUNT inclusive (tenure
\* left out or positive); create_loan with an amount outside the range is
\* answered a client error and stores nothing, and no stored loan has an
\* amount outside the range.
C13_AmountRangeValidated ==
    /\ [](/\ offer.route # NoneVal
             => /\ ~InRange(offer.amount) => offer.route[1].code \in ClientError
                /\ (InRange(offer.amount)
                    /\ (offer.tenure # NoneVal => offer.tenure[1] > 0))
                   => offer.route[1].code = 200
          /\ \A l \in DOMAIN loans : InRange(loans[l].amount))
    /\ [][\A u \in Applicants :
            ( /\ ~InRange(offer.amount)
              /\ create_loan(u, offer.amount, offer.rate, offer.tenure) )
            => (resp'.code \in ClientError /\ loans' = loans)]_vars

C13_Witness ==
    /\ offer.amount = MAX_LOAN_AMOUNT + 1
    /\ offer.route # NoneVal
    /\ offer.route[1].code = 400
    /\ resp = Answered("create_loan", 400)

\* the rate and the tenure a compute-offer request asks for: the value given,
\* or the configured default when it is left out
RequestedRate == IF offer.rate = NoneVal THEN DEFAULT_INTEREST_RATE ELSE offer.rate[1]

RequestedTenure ==
    IF offer.tenure = NoneVal THEN DEFAULT_LOAN_TENURE_DAYS ELSE offer.tenure[1]

\* C14: for an in-range amount, a rate and a positive tenure, compute offer
\* returns (in cents, rounded) interest = amount * rate/100 * tenure/30,
\* total = amount + interest and daily = interest / tenure; so for rate 15
\* and tenure 30 the total is amount + 15% of it, and (1000, 15, 15) gives
\* 75.00, 1075.00 and 5.00.
C14_OfferFormula ==
    (offer.route # NoneVal /\ offer.route[1].code = 200)
    => LET body == offer.route[1].body[1]
           interest == RoundHalfEven(offer.amount * RequestedRate * RequestedTenure, 30)
       IN  /\ body.interest_amount = interest
           /\ body.total_repayment = offer.amount * 100 + interest
           /\ body.daily_interest = RoundHalfEven(offer.amount * RequestedRate, 30)
           /\ (RequestedRate = 15 /\ RequestedTenure = 30)
              => body.total_repayment = offer.amount * 100 + offer.amount * 15
           /\ (offer.amount = 1000 /\ RequestedRate = 15 /\ RequestedTenure = 15)
              => /\ body.interest_amount = 7500
                 /\ body.total_repayment = 107500
                 /\ body.daily_interest = 500

\* the handle of the user's latest active thread, if any
ActiveHandleOf(u) ==
    IF ActiveThreadOf(u) = NoneVal THEN NoneVal
    ELSE Some(ActiveThreadOf(u)[1].openai_thread_id)

\* C15: with one request at a time, get_or_create_thread for a user who has
\* an active thread returns that thread's handle, makes no hosted thread and
\* inserts no conversation_threads row; the call that creates a thread
\* returns the handle the next lookup finds; and between calls the handle of
\* a user's active thread does not change.
C15_SecondCallSameThread ==
    [][/\ \A w \in Workers :
            /\ ( /\ chat[w].pc = "thread_select"
                 /\ chat'[w] # chat[w]
                 /\ ActiveHandleOf(chat[w].caller[1]) # NoneVal )
               => /\ chat'[w].pc = "append"
                  /\ chat'[w].thread_id = ActiveHandleOf(chat[w].caller[1])
                  /\ threads' = threads
                  /\ ext_threads' = ext_threads
            /\ (chat[w].pc = "thread_create" /\ chat'[w].pc = "append")
               => chat'[w].thread_id = ActiveHandleOf(chat[w].caller[1])'
       /\ \A u \in ChatUsers :
            ActiveHandleOf(u) # NoneVal
            => ActiveHandleOf(u)' = ActiveHandleOf(u)]_vars

C15_Witness ==
    \E w \in Workers :
        /\ chat[w].pc = "append"
        /\ Len(threads) = 1
        /\ chat[w].thread_id = ActiveHandleOf(chat[w].caller[1])
        /\ Len(ext_threads[chat[w].thread_id[1]]) > 0

\* the active conversation threads of user u
ActiveThreads(u) ==
    {i \in DOMAIN threads :
        threads[i].user_id = u /\ threads[i].status = "active"}

\* C16: under any interleaving of chat requests and GET /ai/thread requests,
\* every user has at most one active conversation thread.
C16_OneActiveThreadPerUser ==
    \A u \in ChatUsers : Cardinality(ActiveThreads(u)) <= 1

\* C17: a store_customer_acceptance call on a stored loan sets its status to
\* approved and stamps approved_at when accepted is true; when accepted is
\* false it sets the status to rejected and leaves approved_at as it was.
C17_AcceptanceStored ==
    [][\A u \in ChatUsers, l \in DOMAIN loans, a \in BOOLEAN, now \in Times :
          StoreAcceptanceCall(u, l, a, now)
          => /\ loans'[l].status = IF a THEN "approved" ELSE "rejected"
             /\ a => loans'[l].approved_at = Some(now)
             /\ ~a => loans'[l].approved_at = loans[l].approved_at]_vars

\* C18: every loan in status approved has approved_by and approved_at set,
\* whichever of update_loan_status, accept_loan and store_customer_acceptance
\* approved it.
C18_ApprovedLoanStamped ==
    \A l \in DOMAIN loans :
        loans[l].status = "approved"
        => (loans[l].approved_by # NoneVal /\ loans[l].approved_at # NoneVal)

\* C19: PUT /loans/{id}/status by a caller who is not active, or whose role
\* is neither agent nor admin, is answered 403 and leaves every loan
\* unchanged; a call by an active agent or admin on a stored loan changes it.
C19_StatusUpdateRoleGate ==
    [][\A u \in StatusCallers, l \in LoanIds, s \in LoanStatus, now \in Times :
          update_loan_status(u, l, s, now)
          => IF UserStatusOf(u) = "active" /\ UserRoleOf(u) \in {"agent", "admin"}
             THEN /\ resp'.code # 403
                  /\ l \in DOMAIN loans => loans'[l].status = s
             ELSE resp'.code = 403 /\ loans' = loans]_vars

C19_Witness ==
    /\ resp = Answered("update_loan_status", 403)
    /\ \E l \in DOMAIN loans :
          loans[l].status = "active" /\ loans[l].approved_by = Some("carol")

\* C20: create_loan by an active user with an in-range amount (tenure left
\* out or positive) inserts exactly one loan row: owned by the caller, status
\* pending, with the amount asked for and the interest rate, the tenure and
\* the total_repayment that compute offer returns for the same arguments.
C20_CreateLoanInsertsPending ==
    [][\A u \in Applicants :
          ( /\ UserStatusOf(u) = "active"
            /\ InRange(offer.amount)
            /\ (offer.tenure # NoneVal => offer.tenure[1] > 0)
            /\ create_loan(u, offer.amount, offer.rate, offer.tenure) )
          => LET calc == PostCalculate(offer.amount, offer.rate, offer.tenure).body[1]
             IN  /\ Len(loans') = Len(loans) + 1
                 /\ SubSeq(loans', 1, Len(loans)) = loans
                 /\ loans'[Len(loans')].user_id = u
                 /\ loans'[Len(loans')].status = "pending"
                 /\ loans'[Len(loans')].amount = offer.amount
                 /\ loans'[Len(loans')].interest_rate = calc.interest_rate
                 /\ loans'[Len(loans')].tenure_days = calc.tenure_days
                 /\ loans'[Len(loans')].total_repayment = calc.total_repayment]_vars

\* C21: a chat request whose runs.create the assistant API refused, a run
\* of the thread being active, is answered 409, not the 500 of a failed run
\* or of any other failure.
C21_RunConflictIs409 ==
    \A w \in Workers :
        (chat[w].pc = "done" /\ chat[w].detail = Some("runs.create refused"))
        => chat[w].code = 409

TerminalRunStatus == {"completed"} \cup FailedRunStatus

\* the run of the request of worker w
RunOf(w) == runs[chat[w].run[1]]

\* C22: a pass of the poll loop leaves the loop exactly when the run is
\* completed (to fetch the reply) or failed, cancelled or expired (raising),
\* handles the tool calls when it requires action, and polls again on every
\* other status; the reply is fetched and returned only once the run is
\* completed; and, the handler running on, a request whose run has reached
\* one of the four terminal statuses ends.
C22_PollLoopTerminates ==
    /\ [][\A w \in Workers :
            (chat[w].pc = "poll" /\ chat'[w] # chat[w])
            => /\ chat'[w].pc = "list" <=> RunOf(w).status = "completed"
               /\ chat'[w].pc = "done" <=> RunOf(w).status \in FailedRunStatus
               /\ chat'[w].pc = "dispatch" <=> RunOf(w).status = "requires_action"
               /\ chat'[w].pc = "poll"
                  <=> RunOf(w).status \notin
                         TerminalRunStatus \cup {"requires_action"}]_vars
    /\ [](\A w \in Workers :
            /\ chat[w].pc = "list" => RunOf(w).status = "completed"
            /\ (chat[w].pc = "done" /\ chat[w].code = 200)
               => chat[w].polled = Some("completed"))
    /\ \A w \in Workers :
          (chat[w].run # NoneVal /\ RunOf(w).status \in TerminalRunStatus)
          ~> chat[w].pc = "done"

C22_Witness ==
    \E w \in Workers :
        /\ chat[w].pc = "done"
        /\ chat[w].polled = Some("cancelled")
        /\ chat[w].detail = Some(RunFailedError("cancelled"))

\* the tool call the request of worker w dispatches next raises
NextToolCallRaises(w) ==
    _execute_function(NextToolCall(w).name, NextToolCall(w).args,
                      chat[w].caller[1],
                      [loans |-> loans, transactions |-> transactions,
                       profiles |-> profiles],
                      1).raised

\* C23: when a tool call of a batch raises, the request fails (500, no
\* reply, no assistant Message row); the tables keep what the earlier tool
\* calls of the batch wrote; and no outputs are submitted for the batch.
C23_ToolCallsCommittedIndependently ==
    [][\A w \in Workers :
          ( /\ chat[w].pc = "dispatch"
            /\ chat'[w] # chat[w]
            /\ NextToolCallRaises(w) )
          => /\ chat'[w].pc = "done"
             /\ chat'[w].code = 500
             /\ chat'[w].reply = NoneVal
             /\ "assistant" \notin Range(chat'[w].stored)
             /\ UNCHANGED <<loans, profiles, transactions, messages, runs>>
             /\ Len(RunOf(w).submitted) < RunOf(w).pauses]_vars

C23_Witness ==
    \E w \in Workers :
        /\ chat[w].pc = "done"
        /\ chat[w].detail = Some("tool call raised")
        /\ Len(runs) = 1
        /\ runs[1].submitted = <<>>
        /\ \E l \in DOMAIN loans :
              loans[l].status = "approved" /\ loans[l].approved_at # NoneVal

RECURSIVE IsSubsequence(_, _)
\* the elements of a occur in b, in the order of a
IsSubsequence(a, b) ==
    IF a = <<>> THEN TRUE
    ELSE IF b = <<>> THEN FALSE
    ELSE IF Head(a) = Head(b) THEN IsSubsequence(Tail(a), Tail(b))
    ELSE IsSubsequence(a, Tail(b))

\* the texts of the user-role rows of a sequence of messages, in order
UserContents(seq) ==
    LET IsUser(m) == m.role = "user"
        users == SelectSeq(seq, IsUser)
    IN  [i \in DOMAIN users |-> users[i].content]

\* the local Message rows of the conversation thread with id i
LocalRows(i) ==
    LET OfThread(m) == m.thread_id = i
    IN  SelectSeq(messages, OfThread)

\* C24: Message rows are only ever appended; a turn answered 200 stored its
\* user row and then its assistant row; and the user rows of a thread are
\* stored in the order in which their messages were appended to the hosted
\* thread, overlapping requests included.
C24_MessagesInCallOrder ==
    /\ [][/\ Len(messages') >= Len(messages)
          /\ SubSeq(messages', 1, Len(messages)) = messages]_vars
    /\ [](/\ \A w \in Workers :
               (chat[w].pc = "done" /\ chat[w].code = 200)
               => chat[w].stored = <<"user", "assistant">>
          /\ \A i \in DOMAIN threads :
               IsSubsequence(UserContents(LocalRows(i)),
                             UserContents(ext_threads[threads[i].openai_thread_id])))

\* C25: after a store_customer_acceptance call with accepted = true on a
\* stored loan, exactly one disbursement transaction exists for that loan.
C25_AcceptanceDisburses ==
    [][\A u \in ChatUsers, l \in DOMAIN loans, now \in Times :
          StoreAcceptanceCall(u, l, TRUE, now)
          => Cardinality({i \in DOMAIN transactions' :
                             /\ transactions'[i].loan_id = l
                             /\ transactions'[i].type = "disbursement"}) = 1]_vars

\* C26: compute offer answers with the rate and the tenure the request
\* supplies, and with the configured defaults only where the request leaves
\* them out; a supplied rate of 0 gives interest 0 and a total equal to the
\* amount.
C26_SuppliedRateAndTenureUsed ==
    (offer.route # NoneVal /\ offer.route[1].code = 200)
    => LET body == offer.route[1].body[1]
       IN  /\ body.interest_rate = RequestedRate
           /\ body.tenure_days = RequestedTenure
           /\ offer.rate = Some(0)
              => /\ body.interest_amount = 0
                 /\ body.total_repayment = offer.amount * 100

\* C27: a tool call dispatched in a chat turn of user U changes a loan only
\* if the loan's user_id is U, and changes no customer profile but U's.
C27_ToolsWriteOwnRecordsOnly ==
    [][\A w \in Workers :
          (chat[w].pc = "dispatch" /\ chat'[w] # chat[w])
          => /\ \A l \in DOMAIN loans :
                   loans'[l] # loans[l] => loans[l].user_id = chat[w].caller[1]
             /\ \A u \in Users :
                   profiles'[u] # profiles[u] => u = chat[w].caller[1]]_vars

\* the hosted thread t is mapped in conversation_threads to user u
ThreadOwnedBy(t, u) == \E i \in MappingsOf(t) : threads[i].user_id = u

\* C28: a chat request appends a message to a hosted thread, and starts a
\* run on it, only if conversation_threads maps that thread to the caller; a
\* request naming another user's thread or an unknown one appends nothing.
C28_ChatOnOwnThreadOnly ==
    [][\A w \in Workers :
          /\ (chat[w].pc = "append" /\ ext_threads' # ext_threads)
             => ThreadOwnedBy(chat[w].thread_id[1], chat[w].caller[1])
          /\ (chat[w].pc = "run_create" /\ runs' # runs)
             => ThreadOwnedBy(chat[w].thread_id[1], chat[w].caller[1])]_vars

====
